---- MODULE Spec2Model ----
(***************************************************************************)
(* Model of numba/abstracttypes.py: the type-interning registry.           *)
(*                                                                         *)
(*   _typecodes / _autoincr      the global type-code counter              *)
(*   _typecache                  dict  weakref -> weakref                  *)
(*   _on_type_disposal           weakref callback, pops the dead weakref   *)
(*   _TypeMetaclass.__call__     construct, look up, intern                *)
(*   Type.__hash__/__eq__/__ne__ key-based equality                        *)
(*                                                                         *)
(* An instance is identified by the order of its allocation (1, 2, ...).   *)
(* Each __call__ creates exactly one weakref for the instance it builds,   *)
(* so a weakref is identified with its referent's id.  The value 0 stands  *)
(* for None.                                                               *)
(***************************************************************************)
EXTENDS Integers, Sequences, FiniteSets, TLC

\* ---- bounds ------------------------------------------------------------
\* stand-in for the ceiling 2 ** 32 of _autoincr
Ceiling == 2
\* number of external owners one instance may have at a time
MaxOwners == 2
\* number of instances ever allocated: enough to pass the ceiling
MaxInst == Ceiling + 1

\* largest slice step of an index expression
MaxStep == 3
\* longest tuple or list of an index expression, most arguments of a call
MaxRank == 2

Threads == {"t1", "t2"}
\* concrete variants (classes) and the keys their constructors produce
Classes == {"Number", "Dummy"}
Keys == {"int32", "float64"}

Ids == 1 .. MaxInst
None == 0
NoCode == -1

\* ---- the class hierarchy (lines 153-223) ---------------------------------
\* the capability classes of the module; RangeIteratorType stands for a
\* subclass of IteratorType that implements yield_type, Array for the class
\* that __getitem__ instantiates
CapabilityClasses == {"Callable", "DTypeSpec", "IterableType", "IteratorType"}
AllClasses ==
    Classes \cup CapabilityClasses \cup {"RangeIteratorType", "Array"}

\* the base class, "object" for Type itself
Base(c) ==
    CASE c = "Type" -> "object"
      [] c = "IteratorType" -> "IterableType"
      [] c = "RangeIteratorType" -> "IteratorType"
      [] OTHER -> "Type"

\* names a class body declares with @abstractmethod / @abstractproperty
DeclaredAbstract(c) ==
    CASE c = "Callable" -> {"get_call_type"}
      [] c = "DTypeSpec" -> {"dtype"}
      [] c = "IterableType" -> {"iterator_type"}
      [] c = "IteratorType" -> {"yield_type"}
      [] OTHER -> {}

\* names a class body defines concretely
DefinedConcrete(c) ==
    CASE c = "IteratorType" -> {"__init__", "iterator_type"}
      [] c = "RangeIteratorType" -> {"yield_type"}
      [] OTHER -> {}

\* variant: every class counts as complete
AbstractMethodsNone(c) == {}

\* ABCMeta: __abstractmethods__, the abstract names not overridden
RECURSIVE AbstractMethods(_)
AbstractMethods(c) ==
    IF c = "object" THEN {}
    ELSE DeclaredAbstract(c)
            \cup (AbstractMethods(Base(c)) \ DefinedConcrete(c))

RECURSIVE IsSubclass(_, _)
IsSubclass(c, b) ==
    IF c = b THEN TRUE
    ELSE IF c = "object" THEN FALSE
    ELSE IsSubclass(Base(c), b)

\* variant: _iterator_type refers to the previously built instance
InitIteratorTypeStale(c, i) ==
    IF IsSubclass(c, "IteratorType") THEN i - 1 ELSE None

\* lines 211-213: IteratorType.__init__ sets self._iterator_type = self
InitIteratorType(c, i) ==
    IF IsSubclass(c, "IteratorType") THEN i ELSE None

VARIABLES
    nextId,     \* number of instances allocated so far
    cls,        \* cls[i]: the class of instance i          (inst.__class__)
    key,        \* key[i]: its key                          (inst.key)
    code,       \* code[i]: its _code, NoCode while unset   (inst._code)
    life,       \* "free" (not allocated), "live" or "dead"
    owners,     \* owners[i]: strong references held by callers
    typecache,  \* _typecache: function weakref -> weakref
    pending,    \* dead weakrefs whose _on_type_disposal has not run yet
    typecodes,  \* next value of the counter _typecodes
    pc,         \* pc[t]: position of thread t in __call__
    inst,       \* inst[t]: local inst (and its weakref wr)
    orig,       \* orig[t]: local orig after line 46
    n,          \* n[t]: local n of _autoincr
    postInit,   \* instances whose post_init() has returned
    iterator_type, \* iterator_type[i]: inst._iterator_type, None if unset
    facade,     \* the last facade operation: its receiver, arguments, result
    last        \* history: outcome of the __call__ that returned last

vars == <<nextId, cls, key, code, life, owners, typecache, pending,
          typecodes, pc, inst, orig, n, postInit, iterator_type, facade, last>>

Range(f) == {f[x] : x \in DOMAIN f}

Allocated == 1 .. nextId
HasCode(i) == code[i] # NoCode

\* ---- Type.__hash__, __eq__, __ne__ --------------------------------------
\* hash() of a key: equal keys hash alike, different keys may collide
PyHash(k) == IF k = "int32" THEN 1 ELSE 2

\* variant: the default identity hash instead of hash(self.key)
TypeHashById(a) == a

TypeHash(a) == PyHash(key[a])

\* variant: the class test of __eq__ left out
TypeEqNoClass(a, b) == key[a] = key[b]

TypeEq(a, b) == cls[a] = cls[b] /\ key[a] = key[b]

TypeNe(a, b) == ~ TypeEq(a, b)

\* ---- weakref.ref hashing and comparison ---------------------------------
\* hash(wr) is hash(referent), cached by the lookup of line 46
WrHash(w) == TypeHash(w)

\* variant: weakrefs that compare by referent even after a referent died
WrEqIgnoringLife(v, w) == TypeEq(v, w)

\* two weakrefs compare by referent while both referents are alive,
\* by identity otherwise
WrEq(v, w) ==
    IF life[v] = "live" /\ life[w] = "live" THEN TypeEq(v, w) ELSE v = w

\* variant: a reference that still yields its referent after it died
WrDerefUnchecked(w) == w

\* weakref call: the referent, or None once it is dead
WrDeref(w) == IF w # None /\ life[w] = "live" THEN w ELSE None

\* ---- dict operations on _typecache --------------------------------------
\* the stored keys that match w: same hash, then identity or ==
DictFind(d, w) ==
    {k \in DOMAIN d : WrHash(k) = WrHash(w) /\ (k = w \/ WrEq(k, w))}

DictGet(d, w) ==
    IF DictFind(d, w) = {} THEN None ELSE d[CHOOSE k \in DictFind(d, w) : TRUE]

\* d[w] = v keeps a matching stored key and replaces its value
DictSet(d, w, v) ==
    IF DictFind(d, w) = {}
    THEN [k \in DOMAIN d \cup {w} |-> IF k = w THEN v ELSE d[k]]
    ELSE [k \in DOMAIN d |-> IF k \in DictFind(d, w) THEN v ELSE d[k]]

\* variant: the pop left out, entries are never removed
DictPopNothing(d, w) == d

DictPop(d, w) == [k \in DOMAIN d \ DictFind(d, w) |-> d[k]]

\* ---- _autoincr -----------------------------------------------------------
\* variant: a counter that does not advance
NextCountStuck(c) == c

\* variant: a counter that wraps at the ceiling
NextCountWrap(c) == (c + 1) % Ceiling

\* next(_typecodes) leaves the counter at c + 1
NextCount(c) == c + 1

\* variant: no assertion, every value is granted
AutoincrOkAlways(c) == TRUE

\* variant: off-by-one assertion, n <= 2 ** 32
AutoincrOkInclusive(c) == c <= Ceiling

\* line 20: assert n < 2 ** 32
AutoincrOk(c) == c < Ceiling

\* variant: the store of line 51 left out
StoreCodeSkipped(i, v) == code

\* variant: the code is stored on the class, shared by its instances
StoreCodeOnClass(i, v) ==
    [j \in Ids |-> IF cls[j] = cls[i] THEN v ELSE code[j]]

\* line 51: inst._code = v
StoreCode(i, v) == [code EXCEPT ![i] = v]

\* ---- the construction facade (lines 111-150) ---------------------------
\* an argument that is neither a slice nor a Type instance
Other == -1

\* an element of an index tuple: Other, or a slice given by its step
\* (None when the slice has no step)
IndexItems == {Other} \cup {None} \cup (1 .. MaxStep)

SeqsUpTo(S, m) == UNION {[1 .. l -> S] : l \in 0 .. m}

\* index expressions: a tuple or list of items, a single slice, anything else
IndexArgs ==
    [kind : {"tuple", "list"}, items : SeqsUpTo(IndexItems, MaxRank)]
        \cup [kind : {"slice"}, items : [1 .. 1 -> IndexItems \ {Other}]]
        \cup [kind : {"other"}, items : {<<>>}]

Returned(nd, lay) == [exc |-> "none", ndim |-> nd, layout |-> lay]
Raised(e) == [exc |-> e, ndim |-> 0, layout |-> ""]

\* args[j].step == 1, AttributeError when args[j] is not a slice
StepIsOne(e) == e = 1

\* lines 126-147: Type._determine_array_spec
DetermineArraySpec(a) ==
    IF a.kind \in {"tuple", "list"}
    THEN IF Len(a.items) = 0 THEN Raised("IndexError")
         ELSE IF a.items[1] = Other THEN Raised("AttributeError")
         ELSE IF StepIsOne(a.items[1]) THEN Returned(Len(a.items), "F")
         ELSE IF a.items[Len(a.items)] = Other THEN Raised("AttributeError")
         ELSE IF StepIsOne(a.items[Len(a.items)]) THEN Returned(Len(a.items), "C")
         ELSE Returned(Len(a.items), "A")
    ELSE IF a.kind = "slice"
    THEN IF StepIsOne(a.items[1]) THEN Returned(1, "C") ELSE Returned(1, "A")
    ELSE Returned(1, "A")

\* the key of Array(dtype, ndim, layout): its parameters
ArrayKey(d, nd, lay) ==
    "array(" \o d \o ", " \o ToString(nd) \o "d, " \o lay \o ")"

\* signature(return_type, *args) of the typing module
Signature(rt, a) == [kind |-> "signature", return_type |-> rt, args |-> a]

\* line 150: cast_python_value raises NotImplementedError
CastPythonValue(v) ==
    [kind |-> "NotImplementedError", return_type |-> None, args |-> <<v>>]

\* variant: the isinstance test of line 113 left out
TypeCallNoTypeTest(self, a) ==
    IF Len(a) = 1 THEN CastPythonValue(a[1]) ELSE Signature(self, a)

\* lines 111-116: Type.__call__(self, *args)
TypeCall(self, a) ==
    IF Len(a) = 1 /\ a[1] \notin Ids
    THEN CastPythonValue(a[1])
    ELSE Signature(self, a)

TypeOK ==
    /\ nextId \in 0 .. MaxInst
    /\ cls \in [Ids -> AllClasses \cup {"none"}]
    /\ key \in [Ids -> STRING]
    /\ code \in [Ids -> {NoCode} \cup (0 .. MaxInst)]
    /\ life \in [Ids -> {"free", "live", "dead"}]
    /\ owners \in [Ids -> 0 .. MaxOwners]
    /\ DOMAIN typecache \subseteq Ids
    /\ Range(typecache) \subseteq Ids
    /\ pending \subseteq Ids
    /\ typecodes \in 0 .. MaxInst
    /\ pc \in [Threads -> {"idle", "get", "deref", "incr", "setcode", "insert", "post"}]
    /\ inst \in [Threads -> Ids \cup {None}]
    /\ orig \in [Threads -> Ids \cup {None}]
    /\ n \in [Threads -> 0 .. MaxInst]
    /\ postInit \subseteq Ids
    /\ iterator_type \in [Ids -> Ids \cup {None}]
    /\ facade.op \in {"none", "getitem", "array", "call"}
    /\ last \in [out : {"none", "hit", "new", "abort", "typeerror"},
                 ret : Ids \cup {None}]

Init ==
    /\ nextId = 0
    /\ cls = [i \in Ids |-> "none"]
    /\ key = [i \in Ids |-> "none"]
    /\ code = [i \in Ids |-> NoCode]
    /\ life = [i \in Ids |-> "free"]
    /\ owners = [i \in Ids |-> 0]
    /\ typecache = <<>>
    /\ pending = {}
    /\ typecodes = 0
    /\ pc = [t \in Threads |-> "idle"]
    /\ inst = [t \in Threads |-> None]
    /\ orig = [t \in Threads |-> None]
    /\ n = [t \in Threads |-> 0]
    /\ postInit = {}
    /\ iterator_type = [i \in Ids |-> None]
    /\ facade = [op |-> "none"]
    /\ last = [out |-> "none", ret |-> None]

\* ---- _TypeMetaclass.__call__ --------------------------------------------
\* the caller receives r and either keeps it (one more owner) or drops it
Receive(r, keep) ==
    IF keep THEN [owners EXCEPT ![r] = @ + 1] ELSE owners

\* line 43, type.__call__ raises TypeError: the class has abstract methods
\* left, no instance is built
ConstructRaise(t, c, k) ==
    /\ pc[t] = "idle"
    /\ AbstractMethods(c) # {}
    /\ last' = [out |-> "typeerror", ret |-> None]
    /\ UNCHANGED <<nextId, cls, key, code, life, owners, typecache, pending,
                   typecodes, pc, inst, orig, n, postInit, iterator_type,
                   facade>>

\* lines 43-45: build the provisional instance and its weakref
Build(t, c, k) ==
    /\ pc[t] = "idle"
    /\ AbstractMethods(c) = {}
    /\ nextId < MaxInst
    /\ iterator_type' =
            [iterator_type EXCEPT ![nextId + 1] = InitIteratorType(c, nextId + 1)]
    /\ nextId' = nextId + 1
    /\ cls' = [cls EXCEPT ![nextId + 1] = c]
    /\ key' = [key EXCEPT ![nextId + 1] = k]
    /\ life' = [life EXCEPT ![nextId + 1] = "live"]
    /\ inst' = [inst EXCEPT ![t] = nextId + 1]
    /\ pc' = [pc EXCEPT ![t] = "get"]
    /\ UNCHANGED <<code, owners, typecache, pending, typecodes, orig, n,
                   postInit, last>>

\* a direct request for class c with a constructor argument of key k
Construct(t, c, k) == Build(t, c, k) /\ UNCHANGED facade

\* line 46: orig = _typecache.get(wr)
Lookup(t) ==
    /\ pc[t] = "get"
    /\ orig' = [orig EXCEPT ![t] = DictGet(typecache, inst[t])]
    /\ pc' = [pc EXCEPT ![t] = "deref"]
    /\ UNCHANGED <<nextId, cls, key, code, life, owners, typecache, pending,
                   typecodes, inst, n, postInit, last,
                   iterator_type, facade>>

\* lines 47-49, orig is not None: return orig, the provisional instance
\* and its weakref are dropped with the frame
DerefHit(t) ==
    /\ pc[t] = "deref"
    /\ WrDeref(orig[t]) # None
    /\ \E keep \in BOOLEAN :
        /\ keep => owners[WrDeref(orig[t])] < MaxOwners
        /\ owners' = Receive(WrDeref(orig[t]), keep)
    /\ life' = [life EXCEPT ![inst[t]] = "dead"]
    /\ last' = [out |-> "hit", ret |-> WrDeref(orig[t])]
    /\ pc' = [pc EXCEPT ![t] = "idle"]
    /\ inst' = [inst EXCEPT ![t] = None]
    /\ orig' = [orig EXCEPT ![t] = None]
    /\ UNCHANGED <<nextId, cls, key, code, typecache, pending, typecodes, n,
                   postInit,
                   iterator_type, facade>>

\* lines 47-50, orig is None: no entry, or an entry whose referent is dead
DerefMiss(t) ==
    /\ pc[t] = "deref"
    /\ WrDeref(orig[t]) = None
    /\ pc' = [pc EXCEPT ![t] = "incr"]
    /\ orig' = [orig EXCEPT ![t] = None]
    /\ UNCHANGED <<nextId, cls, key, code, life, owners, typecache, pending,
                   typecodes, inst, n, postInit, last,
                   iterator_type, facade>>

\* line 51, the call _autoincr() (lines 17-21), assertion holds
AutoincrReturn(t) ==
    /\ pc[t] = "incr"
    /\ AutoincrOk(typecodes)
    /\ typecodes' = NextCount(typecodes)
    /\ n' = [n EXCEPT ![t] = typecodes]
    /\ pc' = [pc EXCEPT ![t] = "setcode"]
    /\ UNCHANGED <<nextId, cls, key, code, life, owners, typecache, pending,
                   inst, orig, postInit, last,
                   iterator_type, facade>>

\* line 51, the call _autoincr(), assertion fails: AssertionError leaves
\* __call__, the provisional instance is dropped with the frame
AutoincrRaise(t) ==
    /\ pc[t] = "incr"
    /\ ~ AutoincrOk(typecodes)
    /\ typecodes' = NextCount(typecodes)
    /\ life' = [life EXCEPT ![inst[t]] = "dead"]
    /\ last' = [out |-> "abort", ret |-> None]
    /\ pc' = [pc EXCEPT ![t] = "idle"]
    /\ inst' = [inst EXCEPT ![t] = None]
    /\ UNCHANGED <<nextId, cls, key, code, owners, typecache, pending, orig, n,
                   postInit,
                   iterator_type, facade>>

\* line 51, the store inst._code = <returned n>
SetCode(t) ==
    /\ pc[t] = "setcode"
    /\ code' = StoreCode(inst[t], n[t])
    /\ n' = [n EXCEPT ![t] = 0]
    /\ pc' = [pc EXCEPT ![t] = "insert"]
    /\ UNCHANGED <<nextId, cls, key, life, owners, typecache, pending,
                   typecodes, inst, orig, postInit, last,
                   iterator_type, facade>>

\* line 52: _typecache[wr] = wr
Insert(t) ==
    /\ pc[t] = "insert"
    /\ typecache' = DictSet(typecache, inst[t], inst[t])
    /\ pc' = [pc EXCEPT ![t] = "post"]
    /\ UNCHANGED <<nextId, cls, key, code, life, owners, pending, typecodes,
                   inst, orig, n, postInit, last,
                   iterator_type, facade>>

\* variant: the hook is not called
RunPostInitSkipped(i) == postInit

\* line 53: inst.post_init() has run on i
RunPostInit(i) == postInit \cup {i}

\* lines 53-54: inst.post_init(); return inst
PostInitReturn(t) ==
    /\ pc[t] = "post"
    /\ postInit' = RunPostInit(inst[t])
    /\ \E keep \in BOOLEAN :
        /\ keep => owners[inst[t]] < MaxOwners
        /\ owners' = Receive(inst[t], keep)
    /\ last' = [out |-> "new", ret |-> inst[t]]
    /\ pc' = [pc EXCEPT ![t] = "idle"]
    /\ inst' = [inst EXCEPT ![t] = None]
    /\ UNCHANGED <<nextId, cls, key, code, life, typecache, pending,
                   typecodes, orig, n,
                   iterator_type, facade>>

\* one caller: a call runs to its end before the next call or release;
\* collection and disposal callbacks may still happen at any point
Alone(t) == \A u \in Threads \ {t} : pc[u] = "idle"

Quiet == \A t \in Threads : pc[t] = "idle"

\* ---- facade operations -----------------------------------------------------
NoFacade == [op |-> "none"]

\* the caller holds the receiver of a facade operation
Held(d) == life[d] = "live" /\ owners[d] > 0 /\ HasCode(d)

\* lines 118-123: self[args] runs _determine_array_spec, which returns the
\* rank and layout or raises
GetItem(d, a) ==
    /\ facade = NoFacade
    /\ Quiet
    /\ Held(d) /\ cls[d] # "Array"
    /\ facade' = [op |-> "getitem", self |-> d, args |-> a,
                  res |-> DetermineArraySpec(a)]
    /\ UNCHANGED <<nextId, cls, key, code, life, owners, typecache, pending,
                   typecodes, pc, inst, orig, n, postInit, iterator_type,
                   last>>

\* line 124: Array(dtype=self, ndim=ndim, layout=layout) enters
\* _TypeMetaclass.__call__; args is not read any more
GetItemArray(t) ==
    /\ facade.op = "getitem"
    /\ facade.res.exc = "none"
    /\ Build(t, "Array",
             ArrayKey(key[facade.self], facade.res.ndim, facade.res.layout))
    /\ facade' = [op |-> "array", self |-> facade.self, res |-> facade.res]

\* lines 111-116: self(*args); the arguments are Type instances the caller
\* holds or other values
CallArgs == SeqsUpTo({i \in Ids : Held(i)} \cup {Other}, MaxRank)

FacadeCall(d, a) ==
    /\ facade = NoFacade
    /\ Quiet
    /\ Held(d)
    /\ facade' = [op |-> "call", self |-> d, args |-> a, res |-> TypeCall(d, a)]
    /\ UNCHANGED <<nextId, cls, key, code, life, owners, typecache, pending,
                   typecodes, pc, inst, orig, n, postInit, iterator_type,
                   last>>

\* the facade operation returns or raises to its caller
FacadeReturn ==
    /\ \/ facade.op \in {"call", "array"}
       \/ facade.op = "getitem" /\ facade.res.exc # "none"
    /\ Quiet
    /\ facade' = NoFacade
    /\ UNCHANGED <<nextId, cls, key, code, life, owners, typecache, pending,
                   typecodes, pc, inst, orig, n, postInit, iterator_type,
                   last>>

\* ---- owners and the garbage collector -----------------------------------
\* an external owner drops its reference
Release(i) ==
    /\ owners[i] > 0
    /\ owners' = [owners EXCEPT ![i] = @ - 1]
    /\ UNCHANGED <<nextId, cls, key, code, life, typecache, pending,
                   typecodes, pc, inst, orig, n, postInit, last,
                   iterator_type, facade>>

\* the weakref objects still referenced: by the dict or by a local orig
WeakrefsHeld == DOMAIN typecache \cup Range(typecache) \cup Range(orig)

\* an instance nobody references is collected; its weakrefs are cleared and
\* their callbacks become due
Die(i) ==
    /\ life[i] = "live"
    /\ owners[i] = 0
    /\ \A t \in Threads : inst[t] # i
    /\ life' = [life EXCEPT ![i] = "dead"]
    /\ pending' = IF i \in WeakrefsHeld THEN pending \cup {i} ELSE pending
    /\ UNCHANGED <<nextId, cls, key, code, owners, typecache, typecodes, pc,
                   inst, orig, n, postInit, last,
                   iterator_type, facade>>

\* lines 25-26: _on_type_disposal(wr) runs _typecache.pop(wr, None)
OnTypeDisposal(i) ==
    /\ i \in pending
    /\ typecache' = DictPop(typecache, i)
    /\ pending' = pending \ {i}
    /\ UNCHANGED <<nextId, cls, key, code, life, owners, typecodes, pc, inst,
                   orig, n, postInit, last,
                   iterator_type, facade>>

\* ---- specifications ------------------------------------------------------
\* the steps of __call__ after the construction
Proceed(t) ==
    \/ Lookup(t)
    \/ DerefHit(t)
    \/ DerefMiss(t)
    \/ AutoincrReturn(t)
    \/ AutoincrRaise(t)
    \/ SetCode(t)
    \/ Insert(t)
    \/ PostInitReturn(t)

CallStep(t) ==
    \/ \E c \in Classes, k \in Keys : Construct(t, c, k)
    \/ Lookup(t)
    \/ DerefHit(t)
    \/ DerefMiss(t)
    \/ AutoincrReturn(t)
    \/ AutoincrRaise(t)
    \/ SetCode(t)
    \/ Insert(t)
    \/ PostInitReturn(t)

\* threads interleave between the lines of __call__
Next ==
    \/ \E t \in Threads : CallStep(t)
    \/ \E i \in Ids : Release(i)
    \/ \E i \in Ids : Die(i)
    \/ \E i \in Ids : OnTypeDisposal(i)

Spec == Init /\ [][Next]_vars

SeqNext ==
    \/ \E t \in Threads : Alone(t) /\ CallStep(t)
    \/ \E i \in Ids : Quiet /\ Release(i)
    \/ \E i \in Ids : Die(i)
    \/ \E i \in Ids : OnTypeDisposal(i)

SeqSpec == Init /\ [][SeqNext]_vars

\* the collector eventually collects an unreferenced instance and a cleared
\* weakref's callback eventually runs
GcFairness ==
    \A i \in Ids : WF_vars(Die(i)) /\ WF_vars(OnTypeDisposal(i))

SeqLiveSpec == SeqSpec /\ GcFairness

\* one caller requesting capability classes: the four classes of the module
\* that leave a capability abstract, a complete iterator class and Number
RequestedClasses == CapabilityClasses \cup {"RangeIteratorType", "Number"}

CapNext ==
    \/ \E t \in Threads : Alone(t) /\
            \E c \in RequestedClasses, k \in Keys : Construct(t, c, k)
    \/ \E t \in Threads : Alone(t) /\
            \E c \in RequestedClasses, k \in Keys : ConstructRaise(t, c, k)
    \/ \E t \in Threads : Alone(t) /\ Proceed(t)
    \/ \E i \in Ids : Quiet /\ Release(i)
    \/ \E i \in Ids : Die(i)
    \/ \E i \in Ids : OnTypeDisposal(i)

CapSpec == Init /\ [][CapNext]_vars

\* one caller using the facade of a Number instance: it builds the
\* instance, indexes it and calls it, one operation at a time; collection
\* and disposal happen between the lines of the caller
Caller == CHOOSE t \in Threads : TRUE

FacadeNext ==
    \/ facade = NoFacade /\ Construct(Caller, "Number", "float64")
    \/ \E d \in Ids, a \in IndexArgs : GetItem(d, a)
    \/ GetItemArray(Caller)
    \/ \E d \in Ids, a \in CallArgs : FacadeCall(d, a)
    \/ FacadeReturn
    \/ Proceed(Caller)
    \/ \E i \in Ids : Quiet /\ facade = NoFacade /\ Release(i)
    \/ \E i \in Ids : facade.op \in {"none", "array"} /\ Die(i)
    \/ \E i \in Ids : facade.op \in {"none", "array"} /\ OnTypeDisposal(i)

FacadeSpec == Init /\ [][FacadeNext]_vars

\* one caller that builds Number instances of either key and calls the
\* instances it holds, one operation at a time
CallNext ==
    \/ \E k \in Keys : facade = NoFacade /\ Construct(Caller, "Number", k)
    \/ \E d \in Ids, a \in CallArgs : FacadeCall(d, a)
    \/ FacadeReturn
    \/ Proceed(Caller)
    \/ \E i \in Ids : Quiet /\ facade = NoFacade /\ Release(i)
    \/ \E i \in Ids : facade = NoFacade /\ Die(i)
    \/ \E i \in Ids : facade = NoFacade /\ OnTypeDisposal(i)

CallSpec == Init /\ [][CallNext]_vars

\* ---- properties ----------------------------------------------------------
\* thread t leaves __call__ in this step (return or raise)
Leaves(t) == pc[t] # "idle" /\ pc'[t] = "idle"

\* thread t returns normally in this step
Returns(t) == Leaves(t) /\ last'.out \in {"hit", "new"}

\* instances on which line 52 has run
Installed ==
    {i \in Ids : HasCode(i) /\ \A t \in Threads : ~ (inst[t] = i /\ pc[t] = "insert")}

\* instances that __call__ returned as new canonical instances
ReturnedNew == postInit

SameType(a, b) == cls[a] = cls[b] /\ key[a] = key[b]

\* C1 (Canonicalization): with one caller, every request whose class and
\* key equal those of a live instance that an external owner still holds
\* returns that very instance; hence no two distinct live instances that the
\* registry returned are equal.
CanonicalReturn ==
    \A t \in Threads : Leaves(t) =>
        \A x \in Ids :
            (life[x] = "live" /\ owners[x] > 0 /\ SameType(x, inst[t]))
                => (last'.out \in {"hit", "new"} /\ last'.ret = x)

NoEqualReturned ==
    \A a, b \in ReturnedNew :
        (life[a] = "live" /\ life[b] = "live" /\ TypeEq(a, b)) => a = b

C1_Canonicalization == [][CanonicalReturn]_vars /\ []NoEqualReturned

\* a held instance was requested again and the caller got it a second time
C1_Witness ==
    /\ last.out = "hit"
    /\ owners[last.ret] = 2
    /\ last.ret \in ReturnedNew

\* C2 (Code uniqueness): in every reachable state, under any interleaving of
\* calls, releases and disposals, no two live instances that have a code
\* have the same code.
C2_CodeUnique ==
    \A a, b \in Ids :
        (a # b /\ life[a] = "live" /\ life[b] = "live" /\ HasCode(a) /\ HasCode(b))
            => code[a] # code[b]

\* two live instances carry codes
C2_Witness ==
    \E a, b \in Ids :
        /\ a # b /\ life[a] = "live" /\ life[b] = "live"
        /\ HasCode(a) /\ HasCode(b)

\* C3 (Atomic lookup-or-insert): when callers run __call__ concurrently for
\* the same class and key, at most one live instance of that class and key
\* is installed as canonical.
C3_AtMostOneInstalled ==
    \A a, b \in Installed :
        (life[a] = "live" /\ life[b] = "live" /\ SameType(a, b)) => a = b

\* C4 (Reclamation): with one caller, once an instance is dead and its
\* disposal has run, a request for its class and key returns another
\* instance whose code is strictly greater; no code is handed out twice.
ReclaimedReturn ==
    \A t \in Threads : Returns(t) =>
        \A x \in Ids :
            (life[x] = "dead" /\ HasCode(x) /\ x \notin pending /\ SameType(x, inst[t]))
                => (last'.ret # x /\ code'[last'.ret] > code[x])

CodeNeverReused ==
    \A a, b \in Ids : (a # b /\ HasCode(a) /\ HasCode(b)) => code[a] # code[b]

C4_Reclamation == [][ReclaimedReturn]_vars /\ []CodeNeverReused

\* a new instance was returned for the type of a disposed one
C4_Witness ==
    /\ last.out = "new"
    /\ \E x \in Ids :
        /\ life[x] = "dead" /\ HasCode(x) /\ x \notin pending
        /\ x \notin DOMAIN typecache
        /\ SameType(x, last.ret)
        /\ code[x] < code[last.ret]

\* C5 (Code monotonicity): with one caller, each instance that becomes
\* canonical is given a code greater than every code given before it,
\* whatever hits, releases and disposals happened in between.
CodeStoredIncreases ==
    \A t \in Threads : (pc[t] = "setcode" /\ pc'[t] = "insert") =>
        /\ HasCode(inst[t])'
        /\ \A i \in Ids : HasCode(i) => code[i] < code'[inst[t]]

C5_Monotonic == [][CodeStoredIncreases]_vars

\* a second code was given after a hit and after an earlier instance died
C5_Witness ==
    /\ last.out = "new"
    /\ code[last.ret] >= 1
    /\ \E x \in Ids : life[x] = "dead" /\ HasCode(x) /\ code[x] < code[last.ret]

\* C6 (Weak holding and automatic purge): with one caller, a registry entry
\* never prevents the collection of an instance nobody else references; the
\* entry of an instance whose last owner released it is eventually removed
\* by collection and disposal alone (unless a request hands the instance
\* out again first); and once no disposal is pending the registry holds
\* exactly the live installed instances, each under its own weakref.
Unreferenced(i) ==
    /\ life[i] = "live"
    /\ owners[i] = 0
    /\ \A t \in Threads : inst[t] # i

NotKeptAlive ==
    \A i \in DOMAIN typecache : Unreferenced(i) => ENABLED Die(i)

QuiescentExact ==
    pending = {} =>
        /\ DOMAIN typecache = {i \in Installed : life[i] = "live"}
        /\ \A k \in DOMAIN typecache : typecache[k] = k

EventuallyPurged ==
    \A i \in Ids :
        (i \in DOMAIN typecache /\ Unreferenced(i))
            ~> (i \notin DOMAIN typecache \/ owners[i] > 0)

C6_WeakPurge == []NotKeptAlive /\ []QuiescentExact /\ EventuallyPurged

\* an installed instance is dead, its disposal has run and its entry is
\* gone, while another instance is still registered
C6_Witness ==
    /\ pending = {}
    /\ \E x \in Ids :
        /\ life[x] = "dead" /\ x \in ReturnedNew /\ x \notin DOMAIN typecache
    /\ DOMAIN typecache # {}

\* C7 (Counter ceiling): a request that needs a fresh code gets code g when
\* g < Ceiling codes were given before it, and aborts when Ceiling codes
\* were given; so the codes given are 0 .. Ceiling-1, each once, and none is
\* out of range, wrapped or given twice.
Granted ==
    Cardinality({i \in Ids : HasCode(i)})
        + Cardinality({t \in Threads : pc[t] = "setcode"})

AbortsExactlyAtCeiling ==
    \A t \in Threads : (pc[t] = "incr" /\ pc'[t] # "incr") =>
        IF Granted < Ceiling
        THEN pc'[t] = "setcode" /\ n'[t] = Granted
        ELSE pc'[t] = "idle" /\ last'.out = "abort" /\ code' = code

CodesInRange ==
    /\ \A i \in Ids : HasCode(i) => code[i] \in 0 .. Ceiling - 1
    /\ \A a, b \in Ids : (HasCode(a) /\ code[a] = code[b]) => a = b
    /\ \A t \in Threads : pc[t] = "setcode" =>
        /\ n[t] \in 0 .. Ceiling - 1
        /\ \A i \in Ids : code[i] # n[t]

C7_CounterCeiling == [][AbortsExactlyAtCeiling]_vars /\ []CodesInRange

\* Ceiling codes 0 .. Ceiling-1 were given and the next request aborted
C7_Witness ==
    /\ last.out = "abort"
    /\ {code[i] : i \in {j \in Ids : HasCode(j)}} = 0 .. Ceiling - 1

\* C8 (No code-less registry entry): in every reachable state, under any
\* interleaving, every weakref stored in the registry as key or value
\* refers to an instance whose code is assigned.
C8_NoCodelessEntry ==
    \A w \in DOMAIN typecache \cup Range(typecache) : HasCode(w)

\* an entry is in the registry while its __call__ has not returned yet and
\* another thread is looking the same type up
C8_Witness ==
    \E t, u \in Threads :
        /\ pc[t] = "post" /\ inst[t] \in DOMAIN typecache
        /\ pc[u] = "deref" /\ orig[u] = inst[t]

\* C9 (Finalize atomic with insert): no caller obtains an instance from the
\* registry before that instance's post_init() has completed.
C9_ObtainedAfterPostInit ==
    last.out = "hit" => last.ret \in postInit

\* C10 (Equality/hash consistency): A == B exactly when class and key are
\* equal, equal instances hash alike, != negates ==, instances of different
\* classes are never equal, and a request is never answered with an
\* instance of another class or key: equal keys of two classes are interned
\* as two instances with two codes.
EqHashLaws ==
    \A a, b \in Allocated :
        /\ TypeEq(a, b) <=> SameType(a, b)
        /\ TypeEq(a, b) => TypeHash(a) = TypeHash(b)
        /\ TypeNe(a, b) <=> ~ TypeEq(a, b)
        /\ cls[a] # cls[b] => ~ TypeEq(a, b)

ReturnsRequestedType ==
    \A t \in Threads : Returns(t) =>
        /\ SameType(last'.ret, inst[t])
        /\ HasCode(last'.ret)
        /\ \A x \in Ids :
            (life[x] = "live" /\ HasCode(x) /\ x # last'.ret)
                => code[x] # code[last'.ret]

C10_EqHashConsistent == []EqHashLaws /\ [][ReturnsRequestedType]_vars

\* two live registered instances of different classes have the same key,
\* the same hash and different codes
C10_Witness ==
    \E a, b \in DOMAIN typecache :
        /\ life[a] = "live" /\ life[b] = "live"
        /\ cls[a] # cls[b] /\ key[a] = key[b]
        /\ TypeHash(a) = TypeHash(b)
        /\ code[a] # code[b]
        /\ last.out = "new" /\ last.ret = b

\* C11 (Incomplete-capability variants fail at construction): a request for
\* a class that leaves get_call_type, dtype, iterator_type or yield_type
\* abstract raises at construction: no instance of such a class ever exists,
\* and the failing request changes neither the registry nor the counter nor
\* any instance.
NoIncompleteInstance ==
    \A i \in Ids : cls[i] \notin CapabilityClasses

ConstructionFailureFrame ==
    (last'.out = "typeerror" /\ last.out # "typeerror") =>
        /\ typecache' = typecache
        /\ typecodes' = typecodes
        /\ nextId' = nextId
        /\ code' = code /\ life' = life /\ pc' = pc

C11_IncompleteFailsAtConstruction ==
    []NoIncompleteInstance /\ [][ConstructionFailureFrame]_vars

\* a request failed with TypeError while the registry holds an entry and
\* the counter has advanced
C11_Witness ==
    /\ last.out = "typeerror"
    /\ DOMAIN typecache # {}
    /\ typecodes = Cardinality(DOMAIN typecache)
    /\ typecodes > 0

\* C13 (Iterator fixed point): every instance of an IteratorType class has
\* itself as iterator_type, and the instance a request returns, on a hit
\* too, is its own iterator_type and not the discarded provisional one.
IteratorIsSelf ==
    \A i \in Allocated :
        IsSubclass(cls[i], "IteratorType") => iterator_type[i] = i

ReturnedIteratorIsSelf ==
    \A t \in Threads :
        (Returns(t) /\ IsSubclass(cls[last'.ret], "IteratorType")) =>
            /\ iterator_type'[last'.ret] = last'.ret
            /\ (last'.out = "hit") => (iterator_type'[last'.ret] # inst[t])

C13_IteratorFixedPoint ==
    []IteratorIsSelf /\ [][ReturnedIteratorIsSelf]_vars

\* a request for an iterator type was a hit: the canonical instance came
\* back and the provisional one was discarded
C13_Witness ==
    /\ last.out = "hit"
    /\ cls[last.ret] = "RangeIteratorType"
    /\ iterator_type[last.ret] = last.ret
    /\ \E p \in Allocated :
        /\ p # last.ret /\ life[p] = "dead" /\ ~ HasCode(p)
        /\ SameType(p, last.ret)

\* ---- facade properties ----------------------------------------------------
AllSlices(a) == \A j \in 1 .. Len(a.items) : a.items[j] # Other

FirstStep(a) == a.items[1]
LastStep(a) == a.items[Len(a.items)]

\* the layout the rule on slice steps gives a non-empty sequence of slices
LayoutBySteps(a) ==
    CASE FirstStep(a) = 1 -> "F"
      [] FirstStep(a) # 1 /\ LastStep(a) = 1 -> "C"
      [] FirstStep(a) # 1 /\ LastStep(a) # 1 -> "A"

\* the Array instance that self[args] returned
ArrayReturned ==
    (facade.op = "array" /\ Quiet /\ last.out \in {"hit", "new"}) =>
        /\ cls[last.ret] = "Array"
        /\ key[last.ret] =
              ArrayKey(key[facade.self], facade.res.ndim, facade.res.layout)
        /\ HasCode(last.ret)
        /\ last.ret \in postInit

\* C12 as stated (Array spec from indexing): a single slice with step 1
\* gives (1, "C"); a tuple of slices gives rank = number of slices and F if
\* the first step is 1, else C if the last step is 1, else A; any other
\* index gives (1, "A"); __getitem__ returns the interned Array of that
\* rank and layout.
C12_AnyOtherIndexIsRank1A ==
    /\ facade.op = "getitem" =>
        CASE facade.args.kind = "slice" /\ FirstStep(facade.args) = 1 ->
                facade.res = Returned(1, "C")
          [] facade.args.kind = "tuple" /\ Len(facade.args.items) > 0
                /\ AllSlices(facade.args) ->
                facade.res = Returned(Len(facade.args.items),
                                      LayoutBySteps(facade.args))
          [] OTHER -> facade.res = Returned(1, "A")
    /\ ArrayReturned

\* what _determine_array_spec does on every index: a single slice gives
\* (1, "C") when its step is 1 and (1, "A") otherwise; an index that is
\* neither a slice nor a tuple or list gives (1, "A"); a non-empty tuple or
\* list gives rank = its length and F if the first step is 1, else C if the
\* last step is 1, else A; an empty tuple or list raises IndexError and a
\* first (or, when inspected, last) element that is not a slice raises
\* AttributeError
ArraySpecRule ==
    facade.op = "getitem" =>
        CASE facade.args.kind = "slice" ->
                facade.res =
                    Returned(1, IF FirstStep(facade.args) = 1 THEN "C" ELSE "A")
          [] facade.args.kind = "other" ->
                facade.res = Returned(1, "A")
          [] facade.args.kind \in {"tuple", "list"} ->
                IF Len(facade.args.items) = 0
                THEN facade.res.exc = "IndexError"
                ELSE IF AllSlices(facade.args)
                THEN facade.res = Returned(Len(facade.args.items),
                                           LayoutBySteps(facade.args))
                ELSE IF FirstStep(facade.args) = 1
                THEN facade.res = Returned(Len(facade.args.items), "F")
                ELSE IF FirstStep(facade.args) = Other
                        \/ LastStep(facade.args) = Other
                THEN facade.res.exc = "AttributeError"
                ELSE facade.res =
                        Returned(Len(facade.args.items),
                                 IF LastStep(facade.args) = 1 THEN "C" ELSE "A")

\* C14 (Facade invocation dispatch): a call with exactly one argument that
\* is not a Type delegates to cast_python_value of that argument, which
\* raises NotImplementedError; a call with one or more Type arguments
\* returns the signature with the receiver as return type and the arguments
\* in order; the call changes neither the registry nor the counter.
CallDispatch ==
    facade.op = "call" =>
        /\ (Len(facade.args) = 1 /\ facade.args[1] = Other) =>
                /\ facade.res.kind = "NotImplementedError"
                /\ facade.res.args = <<facade.args[1]>>
        /\ (Len(facade.args) >= 1
                /\ \A j \in 1 .. Len(facade.args) : facade.args[j] \in Ids) =>
                /\ facade.res.kind = "signature"
                /\ facade.res.return_type = facade.self
                /\ facade.res.args = facade.args

CallFrame ==
    (facade'.op = "call" /\ facade.op # "call") =>
        /\ typecache' = typecache
        /\ typecodes' = typecodes
        /\ code' = code
        /\ nextId' = nextId

C14_FacadeCall == []CallDispatch /\ [][CallFrame]_vars

\* a Type was called with two Type arguments while the registry holds
\* entries, and gave a signature
C14_Witness ==
    /\ facade.op = "call"
    /\ Len(facade.args) = 2
    /\ facade.args[1] \in Ids /\ facade.args[2] \in Ids
    /\ facade.args[1] # facade.args[2]
    /\ facade.res.kind = "signature"
    /\ DOMAIN typecache # {}

\* ---- ceiling failure ------------------------------------------------------
\* a valid code: a value that _autoincr granted, below the ceiling
ValidCode(i) == HasCode(i) /\ code[i] \in 0 .. Ceiling - 1

\* the step in which a call aborts at the ceiling: the error reaches the
\* caller, the registry and the stored codes stay as they are, and the
\* provisional instance has no entry and no code and is dropped
AbortFrame ==
    \A t \in Threads :
        (Leaves(t) /\ last'.out = "abort") =>
            /\ last'.ret = None
            /\ typecache' = typecache
            /\ code' = code
            /\ inst[t] \notin DOMAIN typecache' \cup Range(typecache')
            /\ ~ HasCode(inst[t])
            /\ life'[inst[t]] = "dead"

\* no step of a call before line 52 writes the registry, so an aborting
\* call has not written it since it began
NoWriteBeforeInsert ==
    \A t \in Threads :
        (pc[t] \in {"idle", "get", "deref", "incr", "setcode"}
            /\ pc'[t] # pc[t]) => typecache' = typecache

\* every installed and every returned instance has a valid code
NoInvalidCode ==
    /\ \A i \in DOMAIN typecache \cup Range(typecache) : ValidCode(i)
    /\ last.out \in {"hit", "new"} => ValidCode(last.ret)

\* C15 (No partial state on ceiling failure): when a call aborts at the
\* code ceiling the error propagates to the caller, the call has left the
\* registry as it was (no entry for the failed instance), and no instance
\* without a valid code is ever returned or installed.
C15_NoPartialStateOnAbort ==
    [][AbortFrame /\ NoWriteBeforeInsert]_vars /\ []NoInvalidCode

\* a call aborted at the ceiling while the registry holds an entry; the
\* failed instance is dead, has no code and no entry
C15_Witness ==
    /\ last.out = "abort"
    /\ DOMAIN typecache # {}
    /\ \E i \in Allocated :
        /\ life[i] = "dead" /\ ~ HasCode(i)
        /\ i \notin DOMAIN typecache \cup Range(typecache)
    /\ typecodes > Ceiling

\* ---- reclamation and lookup -----------------------------------------------
\* the disposal callback of instance i runs in this step
Disposes(i) == i \in pending /\ i \notin pending'

\* the callback of i removes the entry stored under i's weakref and nothing
\* else; a different live instance keeps its entry and is still found
DisposalRemovesOnlyOwn ==
    \A i \in Ids :
        Disposes(i) =>
            /\ DOMAIN typecache' = DOMAIN typecache \ {i}
            /\ \A k \in DOMAIN typecache' : typecache'[k] = typecache[k]
            /\ \A y \in Ids \ {i} :
                    (life[y] = "live" /\ y \in Range(typecache)) =>
                        /\ y \in Range(typecache')
                        /\ DictGet(typecache', y) = DictGet(typecache, y)

\* a call never returns an instance that is dead
NeverReturnsDead ==
    \A t \in Threads :
        Returns(t) => life'[last'.ret] = "live" /\ last'.ret \notin pending'

PostInitStep(t) == pc[t] = "post" /\ pc'[t] # "post"

\* post_init runs on an instance that has not had it, whose code is stored
\* and on which line 52 has run; the instance is then returned as new
PostInitOrder ==
    \A t \in Threads :
        PostInitStep(t) =>
            /\ inst[t] \notin postInit
            /\ HasCode(inst[t])
            /\ inst[t] \in Installed
            /\ postInit' = postInit \cup {inst[t]}
            /\ last' = [out |-> "new", ret |-> inst[t]]

\* post_init runs nowhere else
PostInitOnlyAtLine53 ==
    postInit' # postInit => \E t \in Threads : PostInitStep(t)

\* a cache hit runs no post_init, neither on the discarded provisional
\* instance nor on the instance it returns
HitRunsNoPostInit ==
    \A t \in Threads :
        (Leaves(t) /\ last'.out = "hit") =>
            postInit' = postInit /\ inst[t] \notin postInit'

\* an instance returned as new has had post_init
NewHasPostInit ==
    \A t \in Threads :
        (Leaves(t) /\ last'.out = "new") => last'.ret \in postInit'

\* an instance without a code has not had post_init
CodelessNeverPostInit == \A i \in Ids : ~ HasCode(i) => i \notin postInit

\* C17 (post_init ordering): post_init is invoked exactly once for each
\* instance that becomes canonical, after its code has been assigned and
\* its registry entry stored, never on a provisional instance discarded by a
\* cache hit and never a second time on an instance returned by a later hit.
C17_PostInitOnce ==
    /\ [][PostInitOrder /\ PostInitOnlyAtLine53 /\ HitRunsNoPostInit
            /\ NewHasPostInit]_vars
    /\ []CodelessNeverPostInit

\* a cache hit returned an instance that has had post_init, and the
\* discarded provisional instance of the same type has not
C17_Witness ==
    /\ last.out = "hit"
    /\ last.ret \in postInit
    /\ \E q \in Allocated :
        /\ q # last.ret /\ SameType(q, last.ret)
        /\ life[q] = "dead" /\ ~ HasCode(q) /\ q \notin postInit

\* ---- cache hit ------------------------------------------------------------
\* the step in which a call returns the instance it found: counter,
\* registry and codes stay as they are, the instance returned is live and
\* has its code, the provisional instance has none
HitFrame ==
    \A t \in Threads :
        (Leaves(t) /\ last'.out = "hit") =>
            /\ typecodes' = typecodes
            /\ typecache' = typecache
            /\ code' = code
            /\ life[last'.ret] = "live" /\ HasCode(last'.ret)
            /\ ~ HasCode(inst[t])

\* lines 43-49 write neither the counter nor the registry nor a code
HitCallWritesNothing ==
    \A t \in Threads :
        (pc[t] \in {"idle", "get", "deref"} /\ pc'[t] # pc[t]) =>
            typecodes' = typecodes /\ typecache' = typecache /\ code' = code

\* a code is written only by line 51 of the call that built the instance,
\* on an instance that has none: it is assigned once and never changes
CodeAssignedOnce ==
    \A i \in Ids :
        code'[i] # code[i] =>
            /\ code[i] = NoCode
            /\ \E t \in Threads : inst[t] = i /\ pc[t] = "setcode"

\* C18 (Cache hit frame condition): a call that finds a live canonical
\* instance leaves the code counter, the registry entries and that
\* instance's code unchanged, and the discarded provisional instance never
\* receives a code; the code of an instance is assigned once and keeps its
\* value.
C18_HitFrame ==
    [][HitFrame /\ HitCallWritesNothing /\ CodeAssignedOnce]_vars

\* a hit returned an instance of code 0 after a second instance of another
\* type got code 1; the counter stands at 2 and the provisional instance of
\* the hit is dead without a code
C18_Witness ==
    /\ last.out = "hit"
    /\ code[last.ret] = 0
    /\ typecodes = 2
    /\ \E j \in Allocated : code[j] = 1 /\ ~ SameType(j, last.ret)
    /\ \E q \in Allocated :
        /\ SameType(q, last.ret) /\ life[q] = "dead" /\ ~ HasCode(q)

\* ---- successful returns ---------------------------------------------------
\* a call that returns normally returns an instance, live and with a code
ReturnsFinalizedLive ==
    \A t \in Threads :
        Returns(t) =>
            /\ last'.ret \in Allocated
            /\ life'[last'.ret] = "live"
            /\ code'[last'.ret] # NoCode

\* line 47 on an entry whose referent has died: the call does not return,
\* it goes on to line 51 with its own instance
DeadReferentIsMiss ==
    \A t \in Threads :
        (pc[t] = "deref" /\ pc'[t] # "deref"
            /\ orig[t] # None /\ life[orig[t]] = "dead") =>
                /\ pc'[t] = "incr"
                /\ inst'[t] = inst[t] /\ life'[inst[t]] = "live"
                /\ last' = last

\* after a miss the call gives its own instance a code, installs it and
\* returns it
MissFinalizesOwn ==
    \A t \in Threads :
        /\ (pc[t] = "setcode" /\ pc'[t] # "setcode") =>
                code'[inst[t]] # NoCode /\ pc'[t] = "insert"
        /\ (pc[t] = "insert" /\ pc'[t] # "insert") =>
                inst[t] \in Range(typecache') /\ pc'[t] = "post"
        /\ (pc[t] = "post" /\ pc'[t] # "post") =>
                last' = [out |-> "new", ret |-> inst[t]]

\* C19 (Every successful return is a finalized live instance): under any
\* interleaving of calls, releases and disposals a call that returns
\* normally returns a live instance with an assigned code; when the lookup
\* finds an entry whose referent has died before its callback ran, the call
\* treats it as a miss and finalizes and installs its new instance instead
\* of returning nothing.
C19_ReturnsFinalizedLive ==
    [][ReturnsFinalizedLive /\ DeadReferentIsMiss /\ MissFinalizesOwn]_vars

\* a call returned its new instance while the entry of a dead instance of
\* the same type, whose callback has not run, is still in the registry
C19_Witness ==
    /\ last.out = "new"
    /\ life[last.ret] = "live" /\ HasCode(last.ret)
    /\ last.ret \in Range(typecache)
    /\ \E x \in pending :
        /\ x # last.ret /\ SameType(x, last.ret)
        /\ life[x] = "dead" /\ x \in DOMAIN typecache
        /\ code[x] < code[last.ret]

====
